---- MODULE Spec2Model ----
(***************************************************************************)
(* State-machine model of gcc-python-tree.c: the wrapper factories for     *)
(* source locations and tree nodes, and the repr/str formatters layered on *)
(* them.  The embedding layer is single-threaded, so every C function is   *)
(* one atomic action.                                                      *)
(*                                                                         *)
(* Python objects are identified by their allocation serial: heap[i] is    *)
(* the i-th object ever allocated, and an object whose ob_refcnt reached 0 *)
(* has been deallocated.                                                   *)
(***************************************************************************)
EXTENDS Integers, Sequences, FiniteSets, TLC

VARIABLES
    ndebug,      \* build flag: TRUE iff compiled with -DNDEBUG (assert() is empty)
    nativeHeap,  \* the host's IR: node handle -> [code, name]
    heap,        \* the scripting environment's objects, by allocation serial
    out,         \* what has been written to standard output, one entry per printf
    pyerr,       \* the scripting environment's error indicator
    call,        \* the last call made into this layer, and what it returned
    status,      \* "running", "aborted" (assert failed) or "crashed" (SIGSEGV)
    ncalls       \* number of operations so far (calls into the layer and discards)

vars == <<ndebug, nativeHeap, heap, out, pyerr, call, status, ncalls>>

\* ---------------------------------------------------------------- bounds
MaxCalls == 3

\* ------------------------------------------------------------- constants
NULL == 0

NoNode == "NoNode"
NoLoc == "NoLoc"
NoStr == "NoStr"

\* ------------------------------------------------------- the host's data
\* Native node handles the caller may hold, with their tree code (KindTag)
\* and DECL_NAME.  "n_odd" carries a tree code the generated table lacks.
Nodes == {"n_x", "n_foo", "n_anon", "n_type", "n_odd"}

NativeInit ==
    [n \in Nodes |->
        CASE n = "n_x"    -> [code |-> "decl", name |-> "x"]
          [] n = "n_foo"  -> [code |-> "decl", name |-> "foo"]
          [] n = "n_anon" -> [code |-> "decl", name |-> NoStr]
          [] n = "n_type" -> [code |-> "type", name |-> NoStr]
          [] n = "n_odd"  -> [code |-> "odd",  name |-> NoStr]]

\* location_t values (indices into the host's line map) and what
\* expand_location yields for them; 0 is UNKNOWN_LOCATION, whose file is NULL.
Locations == {0, 1, 2, 3}

LineMap ==
    [l \in Locations |->
        CASE l = 0 -> [file |-> NoStr,   line |-> 0]
          [] l = 1 -> [file |-> "foo.c", line |-> 42]
          [] l = 2 -> [file |-> "bar.h", line |-> 7]
          [] l = 3 -> [file |-> "foo.c", line |-> 100]]

LOCATION_FILE(loc) == LineMap[loc].file
LOCATION_LINE(loc) == LineMap[loc].line

\* ------------------------------------------------------- type dispatch
\* The generated kind -> type table: "NULL" where no type is registered.
gcc_python_autogenerated_tree_type_for_tree(t) ==
    CASE nativeHeap[t].code = "decl" -> "gcc.Declaration"
      [] nativeHeap[t].code = "type" -> "gcc.Type"
      [] OTHER -> "NULL"

\* printf's %p rendering of a type object's address
PtrStr(tp) ==
    CASE tp = "gcc.Declaration" -> "0x7f0000601000"
      [] tp = "gcc.Type"        -> "0x7f0000601200"
      [] tp = "gcc.Location"    -> "0x7f0000601400"
      [] OTHER                  -> "(nil)"

\* ------------------------------------------------------------ formatting
Digit(d) == <<"0", "1", "2", "3", "4", "5", "6", "7", "8", "9">>[d + 1]

RECURSIVE UDec(_)
UDec(n) == IF n < 10 THEN Digit(n) ELSE UDec(n \div 10) \o Digit(n % 10)

\* the %i conversion
FmtInt(n) == IF n < 0 THEN "-" \o UDec(0 - n) ELSE UDec(n)

\* ------------------------------------------------------ the object heap
Blank(tp) ==
    [ob_type |-> tp, ob_refcnt |-> 1, t |-> NoNode, loc |-> NoLoc, str |-> NoStr]

\* PyObject_New(T, tp): a new object of type tp holding one reference, or
\* NULL with MemoryError set when the allocator fails.
PyObject_New(h, tp, ok) ==
    IF ok THEN [heap |-> Append(h, Blank(tp)), obj |-> Len(h) + 1]
          ELSE [heap |-> h, obj |-> NULL]

\* Py_DECREF(o): drop one reference; at zero the object is deallocated.
Py_DECREF(h, o) == [h EXCEPT ![o].ob_refcnt = @ - 1]

\* Py_XDECREF(o): Py_DECREF unless o is NULL.
Py_XDECREF(h, o) == IF o = NULL THEN h ELSE Py_DECREF(h, o)

Live(o) == o \in DOMAIN heap /\ heap[o].ob_refcnt > 0

Running == status = "running" /\ ncalls < MaxCalls

Init ==
    /\ ndebug \in BOOLEAN
    /\ nativeHeap = NativeInit
    /\ heap = <<>>
    /\ out = <<>>
    /\ pyerr = "none"
    /\ call = [op |-> "none", arg |-> NULL, val |-> NULL, alloc |-> "none", name |-> NULL]
    /\ status = "running"
    /\ ncalls = 0

\* ------------------------------------------------- how a call can end
\* The function returns val to its caller, leaving heap h and error err.
\* alloc tells whether the allocator was invoked and how it answered; name
\* is the intermediate name object the call obtained, if any.
Return(op, arg, h, val, alloc, name, err) ==
    /\ heap' = h
    /\ pyerr' = err
    /\ call' = [op |-> op, arg |-> arg, val |-> val, alloc |-> alloc, name |-> name]
    /\ ncalls' = ncalls + 1
    /\ UNCHANGED <<ndebug, status>>

\* The process ends inside the call: "aborted" by a failed assert(),
\* "crashed" by a fault.  Nothing is returned.
Die(op, arg, how, alloc) ==
    /\ status' = how
    /\ call' = [op |-> op, arg |-> arg, val |-> NULL, alloc |-> alloc, name |-> NULL]
    /\ ncalls' = ncalls + 1
    /\ UNCHANGED <<ndebug, heap, pyerr>>

Answer(obj) == IF obj = NULL THEN "failed" ELSE "ok"
ErrOf(obj) == IF obj = NULL THEN "MemoryError" ELSE "none"

\* What a %s conversion reads through a char*.  A NULL pointer is undefined
\* behaviour: the read faults ("SEGV") or yields whatever lies there.
UB == {"segv", "garbage"}
CStr(p, ub) == IF p # NoStr THEN p ELSE IF ub = "segv" THEN "SEGV" ELSE "(null)"

\* PyString_FromFormat(...): a new string object holding one reference, or
\* NULL with MemoryError set.
PyString_FromFormat(h, text, ok) ==
    IF ok THEN [heap |-> Append(h, [Blank("str") EXCEPT !.str = text]), obj |-> Len(h) + 1]
          ELSE [heap |-> h, obj |-> NULL]

\* PyString_AsString(o): the characters of a string object
PyString_AsString(h, o) == h[o].str

\* -------------------------------------------------- location formatters
\* (a variant that leaves the quotes around the file name out)
FormatLocationRepr_unquoted(file, line) ==
    "gcc.Location(file=" \o file \o ", line=" \o FmtInt(line) \o ")"

\* "gcc.Location(file='%s', line=%i)"
FormatLocationRepr(file, line) ==
    "gcc.Location(file='" \o file \o "', line=" \o FmtInt(line) \o ")"

\* "%s:%i"
FormatLocationStr(file, line) == file \o ":" \o FmtInt(line)

IsLocation(self) == Live(self) /\ heap[self].ob_type = "gcc.Location"

gcc_Location_repr(self, ok, ub) ==
    /\ Running
    /\ IsLocation(self)
    /\ LET file == CStr(LOCATION_FILE(heap[self].loc), ub)
           line == LOCATION_LINE(heap[self].loc)
           r    == PyString_FromFormat(heap, FormatLocationRepr(file, line), ok)
       IN  IF file = "SEGV"
           THEN Die("location_repr", self, "crashed", "none")
           ELSE Return("location_repr", self, r.heap, r.obj, Answer(r.obj), NULL, ErrOf(r.obj))
    /\ UNCHANGED <<out, nativeHeap>>

gcc_Location_str(self, ok, ub) ==
    /\ Running
    /\ IsLocation(self)
    /\ LET file == CStr(LOCATION_FILE(heap[self].loc), ub)
           line == LOCATION_LINE(heap[self].loc)
           r    == PyString_FromFormat(heap, FormatLocationStr(file, line), ok)
       IN  IF file = "SEGV"
           THEN Die("location_str", self, "crashed", "none")
           ELSE Return("location_str", self, r.heap, r.obj, Answer(r.obj), NULL, ErrOf(r.obj))
    /\ UNCHANGED <<out, nativeHeap>>

\* ------------------------------------------------- location wrapper factory
\* location_obj->loc = loc
BindLocation(h, obj, loc) == [h EXCEPT ![obj].loc = loc]

gcc_python_make_wrapper_location(loc, ok) ==
    /\ Running
    /\ LET a == PyObject_New(heap, "gcc.Location", ok) IN
         IF a.obj = NULL
         THEN Return("make_location", loc, a.heap, NULL, "failed", NULL, "MemoryError")
         ELSE Return("make_location", loc, BindLocation(a.heap, a.obj, loc), a.obj,
                     "ok", NULL, "none")
    /\ UNCHANGED <<out, nativeHeap>>

\* ------------------------------------------------------ declaration repr
\* gcc_Declaration_get_name(self, NULL): a new reference to a string holding
\* the declaration's name, or NULL with an error set.
gcc_Declaration_get_name(h, self, ok) ==
    LET nm == nativeHeap[h[self].t].name IN
    IF nm = NoStr THEN [heap |-> h, obj |-> NULL, err |-> "AttributeError"]
    ELSE IF ~ok   THEN [heap |-> h, obj |-> NULL, err |-> "MemoryError"]
    ELSE [heap |-> Append(h, [Blank("str") EXCEPT !.str = nm]),
          obj |-> Len(h) + 1, err |-> "none"]

\* (a variant that formats the placeholder instead of the name)
FormatDeclarationRepr_noarg(s) == "gcc.Declaration('%s')"

\* "gcc.Declaration('%s')"
FormatDeclarationRepr(s) == "gcc.Declaration('" \o s \o "')"

IsDeclaration(self) == Live(self) /\ heap[self].ob_type = "gcc.Declaration"

\* (a variant that keeps the reference to the name)
ReleaseName_leak(h, name) == h

\* Py_DECREF(name), after the name has been formatted
ReleaseName(h, name) == Py_DECREF(h, name)

\* (a variant without the check of the accessor's result: PyString_AsString
\* then reads through the NULL name and faults)
gcc_Declaration_repr_nocheck(self, nameOk, fmtOk) ==
    /\ Running
    /\ IsDeclaration(self)
    /\ LET n == gcc_Declaration_get_name(heap, self, nameOk) IN
         IF n.obj = NULL
         THEN Die("declaration_repr", self, "crashed", "none")
         ELSE LET r == PyString_FromFormat(n.heap,
                           FormatDeclarationRepr(PyString_AsString(n.heap, n.obj)), fmtOk)
              IN  Return("declaration_repr", self, ReleaseName(r.heap, n.obj), r.obj,
                         Answer(r.obj), n.obj, ErrOf(r.obj))
    /\ UNCHANGED <<out, nativeHeap>>

gcc_Declaration_repr(self, nameOk, fmtOk) ==
    /\ Running
    /\ IsDeclaration(self)
    /\ LET n == gcc_Declaration_get_name(heap, self, nameOk) IN
         IF n.obj = NULL
         THEN \* error: name and result are both still NULL
              Return("declaration_repr", self, Py_XDECREF(Py_XDECREF(n.heap, NULL), NULL),
                     NULL, "none", NULL, n.err)
         ELSE LET r == PyString_FromFormat(n.heap,
                           FormatDeclarationRepr(PyString_AsString(n.heap, n.obj)), fmtOk)
              IN  Return("declaration_repr", self, ReleaseName(r.heap, n.obj), r.obj,
                         Answer(r.obj), n.obj, ErrOf(r.obj))
    /\ UNCHANGED <<out, nativeHeap>>

\* ----------------------------------------------------- tree wrapper factory
\* (a variant that never stores the handle)
BindTree_unbound(h, obj, t) == h

\* tree_obj->t = t
BindTree(h, obj, t) == [h EXCEPT ![obj].t = t]

\* (a variant without the check of the allocator's result: the store through
\* the NULL tree_obj faults)
TreeAlloc_nocheck(t, tp, ok) ==
    LET a == PyObject_New(heap, tp, ok) IN
    /\ IF a.obj = NULL
       THEN Die("make_tree", t, "crashed", "failed")
       ELSE Return("make_tree", t, BindTree(a.heap, a.obj, t), a.obj, "ok", NULL, "none")
    /\ nativeHeap' = nativeHeap

\* (a variant with an identity map: a live wrapper of the same handle is
\* handed out again, with one more reference)
TreeAlloc_cached(t, tp, ok) ==
    LET a   == PyObject_New(heap, tp, ok)
        hit == {o \in DOMAIN heap : heap[o].ob_refcnt > 0 /\ heap[o].t = t}
        old == CHOOSE o \in hit : TRUE
    IN
    /\ IF hit # {}
       THEN Return("make_tree", t, [heap EXCEPT ![old].ob_refcnt = @ + 1], old,
                   "none", NULL, "none")
       ELSE IF a.obj = NULL
       THEN Return("make_tree", t, a.heap, NULL, "failed", NULL, "MemoryError")
       ELSE Return("make_tree", t, BindTree(a.heap, a.obj, t), a.obj, "ok", NULL, "none")
    /\ nativeHeap' = nativeHeap

\* (a variant that takes the node over: when no wrapper can be made for it,
\* the node is given back to the host's collector)
TreeAlloc_owning(t, tp, ok) ==
    LET a == PyObject_New(heap, tp, ok) IN
    IF a.obj = NULL
    THEN /\ Return("make_tree", t, a.heap, NULL, "failed", NULL, "MemoryError")
         /\ nativeHeap' = [nativeHeap EXCEPT ![t].code = "freed"]
    ELSE /\ Return("make_tree", t, BindTree(a.heap, a.obj, t), a.obj, "ok", NULL, "none")
         /\ nativeHeap' = nativeHeap

\* From PyObject_New to the return: allocate an object of type tp, give up
\* with NULL if that failed, else store the handle and return the object.
\* The node itself is left alone.
TreeAlloc(t, tp, ok) ==
    LET a == PyObject_New(heap, tp, ok) IN
    /\ IF a.obj = NULL
       THEN Return("make_tree", t, a.heap, NULL, "failed", NULL, "MemoryError")
       ELSE Return("make_tree", t, BindTree(a.heap, a.obj, t), a.obj, "ok", NULL, "none")
    /\ nativeHeap' = nativeHeap

\* With assert(tp) compiled in, a NULL tp aborts before anything else
\* happens.  Compiled out (-DNDEBUG), the call goes on with tp = NULL: it
\* prints, and PyObject_New reads tp_basicsize through the NULL pointer,
\* which faults or goes on with whatever it read.
gcc_python_make_wrapper_tree(t, ok, ub) ==
    /\ Running
    /\ LET tp == gcc_python_autogenerated_tree_type_for_tree(t) IN
         IF tp = "NULL" /\ ~ndebug
         THEN Die("make_tree", t, "aborted", "none") /\ UNCHANGED <<out, nativeHeap>>
         ELSE /\ out' = Append(out, "tp:" \o PtrStr(tp) \o "\n")
              /\ IF tp = "NULL" /\ ub = "segv"
                 THEN Die("make_tree", t, "crashed", "faulted") /\ nativeHeap' = nativeHeap
                 ELSE TreeAlloc(t, tp, ok)

\* ----------------------------------------------------- teardown by the caller
\* The holder of a reference drops it; the scripting environment frees the
\* object when the count reaches zero.  Native memory is the host's.
Discard(o) ==
    /\ Running
    /\ Live(o)
    /\ heap' = Py_DECREF(heap, o)
    /\ call' = [op |-> "discard", arg |-> o, val |-> NULL, alloc |-> "none", name |-> NULL]
    /\ ncalls' = ncalls + 1
    /\ UNCHANGED <<ndebug, nativeHeap, out, pyerr, status>>

Objs == 1..(2 * MaxCalls)

Next ==
    \/ \E loc \in Locations, ok \in BOOLEAN : gcc_python_make_wrapper_location(loc, ok)
    \/ \E self \in Objs, ok \in BOOLEAN, ub \in UB : gcc_Location_repr(self, ok, ub)
    \/ \E self \in Objs, ok \in BOOLEAN, ub \in UB : gcc_Location_str(self, ok, ub)
    \/ \E t \in Nodes, ok \in BOOLEAN, ub \in UB : gcc_python_make_wrapper_tree(t, ok, ub)
    \/ \E self \in Objs, nameOk, fmtOk \in BOOLEAN : gcc_Declaration_repr(self, nameOk, fmtOk)
    \/ \E o \in Objs : Discard(o)

Spec == Init /\ [][Next]_vars

\* =================================================================== claims
TypeFor(t) == gcc_python_autogenerated_tree_type_for_tree(t)

MadeTree == call.op = "make_tree" /\ call.val # NULL

\* C1: a successful gcc_python_make_wrapper_tree on a node whose tree code
\* has a registered type returns a wrapper of exactly that type holding
\* exactly the handle passed in; and every wrapper of such a node that
\* exists has the type registered for its node.
C1_DispatchCorrect ==
    /\ (MadeTree /\ TypeFor(call.arg) # "NULL") =>
          /\ heap[call.val].ob_type = TypeFor(call.arg)
          /\ heap[call.val].t = call.arg
    /\ \A o \in DOMAIN heap :
          (heap[o].ob_type \in {"gcc.Declaration", "gcc.Type"}) =>
             /\ heap[o].t \in Nodes
             /\ TypeFor(heap[o].t) = heap[o].ob_type

C1_Witness ==
    /\ MadeTree
    /\ call.arg = "n_type"
    /\ heap[call.val].ob_type = "gcc.Type"

\* C2 (as claimed): a call on a node whose tree code has no registered type
\* ends in the fatal abort, the allocator is not invoked, nothing is
\* returned and nothing is printed.
C2_UnregisteredOnlyAborts ==
    (call.op = "make_tree" /\ TypeFor(call.arg) = "NULL") =>
        /\ status = "aborted"
        /\ call.alloc = "none"
        /\ call.val = NULL
        /\ \A i \in DOMAIN out : out[i] # "tp:(nil)\n"

\* C3: when the allocator fails, both factories return NULL to their
\* caller with MemoryError set, and the heap is what it was before the call:
\* no new object, nothing bound.
C3_AllocFailureReturnsNull ==
    [][(call'.op \in {"make_tree", "make_location"} /\ call'.alloc = "failed") =>
          /\ status' = "running"
          /\ call'.val = NULL
          /\ pyerr' = "MemoryError"
          /\ heap' = heap]_vars

C3_Witness ==
    /\ call.op = "make_tree"
    /\ call.alloc = "failed"
    /\ status = "running"
    /\ \E o \in DOMAIN heap : heap[o].ob_type = "gcc.Location" /\ heap[o].ob_refcnt > 0

\* C4: every successful gcc_python_make_wrapper_tree (on a node with a
\* registered type) returns an object that did not exist before, holding one
\* reference and the handle passed in; the objects that existed are left as
\* they were; and every earlier wrapper of the same handle has the same type
\* as the new one.
C4_AlwaysFreshWrapper ==
    [][(call'.op = "make_tree" /\ call'.val # NULL /\ TypeFor(call'.arg) # "NULL") =>
          /\ call'.val \notin DOMAIN heap
          /\ call'.val \in DOMAIN heap'
          /\ heap'[call'.val].ob_refcnt = 1
          /\ heap'[call'.val].t = call'.arg
          /\ \A o \in DOMAIN heap :
                /\ heap'[o] = heap[o]
                /\ heap[o].t = call'.arg => heap[o].ob_type = heap'[call'.val].ob_type]_vars

C4_Witness ==
    /\ MadeTree
    /\ \E o \in DOMAIN heap :
          /\ o # call.val
          /\ heap[o].ob_refcnt > 0
          /\ heap[o].t = call.arg
          /\ heap[o].ob_type = heap[call.val].ob_type
          /\ heap[o].ob_type = "gcc.Declaration"

\* C5: neither gcc_python_make_wrapper_tree, however it ends, nor the
\* discard of an object changes any native node.
C5_NativeHeapUntouched ==
    [][(call'.op \in {"make_tree", "discard"}) => nativeHeap' = nativeHeap]_vars

C5_Witness ==
    /\ call.op = "discard"
    /\ heap[call.arg].t # NoNode
    /\ heap[call.arg].ob_refcnt = 0
    /\ \E o \in DOMAIN heap : heap[o].ob_refcnt > 0 /\ heap[o].t = heap[call.arg].t

\* What the formatters are to produce for the host's line map and names,
\* written out.
ExpectedLocationRepr(loc) ==
    CASE loc = 1 -> "gcc.Location(file='foo.c', line=42)"
      [] loc = 2 -> "gcc.Location(file='bar.h', line=7)"
      [] loc = 3 -> "gcc.Location(file='foo.c', line=100)"

ExpectedLocationStr(loc) ==
    CASE loc = 1 -> "foo.c:42"
      [] loc = 2 -> "bar.h:7"
      [] loc = 3 -> "foo.c:100"

ClaimedLocationRepr(loc) ==
    CASE loc = 1 -> "Location(file='foo.c', line=42)"
      [] loc = 2 -> "Location(file='bar.h', line=7)"
      [] loc = 3 -> "Location(file='foo.c', line=100)"

HasFile(self) == heap[self].loc \in Locations /\ LOCATION_FILE(heap[self].loc) # NoStr

\* C6 (amended): for a location with a file, gcc_Location_repr returns, when
\* the string can be allocated, exactly gcc.Location(file='f', line=n) and
\* gcc_Location_str exactly f:n, for the location stored in the wrapper.
C6_LocationFormat ==
    /\ (call.op = "location_repr" /\ call.val # NULL /\ HasFile(call.arg)) =>
          heap[call.val].str = ExpectedLocationRepr(heap[call.arg].loc)
    /\ (call.op = "location_str" /\ call.val # NULL /\ HasFile(call.arg)) =>
          heap[call.val].str = ExpectedLocationStr(heap[call.arg].loc)

C6_Witness ==
    /\ call.op = "location_repr"
    /\ call.val # NULL
    /\ heap[call.arg].loc = 3
    /\ heap[call.val].str = "gcc.Location(file='foo.c', line=100)"

\* C6 (as claimed): Repr is exactly Location(file='f', line=n) and Display
\* exactly f:n.
C6_AsClaimed ==
    /\ (call.op = "location_repr" /\ call.val # NULL /\ HasFile(call.arg)) =>
          heap[call.val].str = ClaimedLocationRepr(heap[call.arg].loc)
    /\ (call.op = "location_str" /\ call.val # NULL /\ HasFile(call.arg)) =>
          heap[call.val].str = ExpectedLocationStr(heap[call.arg].loc)

ReprOk == call.op = "declaration_repr" /\ call.val # NULL

\* C7 (amended): when the name accessor succeeds with name s and the string
\* can be allocated, gcc_Declaration_repr returns exactly
\* gcc.Declaration('s').
C7_DeclarationRepr ==
    ReprOk =>
       /\ heap[call.arg].t = "n_x" => heap[call.val].str = "gcc.Declaration('x')"
       /\ heap[call.arg].t = "n_foo" => heap[call.val].str = "gcc.Declaration('foo')"
       /\ heap[call.arg].t \in {"n_x", "n_foo"}

C7_Witness == ReprOk /\ heap[call.arg].t = "n_foo" /\ heap[call.val].ob_refcnt = 1

\* C7 (as claimed): the string returned is exactly Declaration('s').
C7_AsClaimed ==
    ReprOk =>
       /\ heap[call.arg].t = "n_x" => heap[call.val].str = "Declaration('x')"
       /\ heap[call.arg].t = "n_foo" => heap[call.val].str = "Declaration('foo')"

\* C8: when the name accessor fails, gcc_Declaration_repr returns NULL to
\* its caller with the accessor's error still set, and the heap is what it
\* was before the call: no string was built and nothing is left behind.
C8_AccessorFailurePropagates ==
    [][(call'.op = "declaration_repr" /\ call'.name = NULL) =>
          /\ status' = "running"
          /\ call'.val = NULL
          /\ call'.alloc = "none"
          /\ pyerr' \in {"AttributeError", "MemoryError"}
          /\ (nativeHeap[heap[call'.arg].t].name = NoStr) => pyerr' = "AttributeError"
          /\ heap' = heap]_vars

C8_Witness ==
    /\ call.op = "declaration_repr"
    /\ call.name = NULL
    /\ pyerr = "AttributeError"
    /\ heap[call.arg].t = "n_anon"

\* C9 (as claimed): nothing is ever written to standard output.
C9_NothingPrinted == out = <<>>

\* C10: a call of gcc_Declaration_repr that obtained a name object leaves
\* that object, which did not exist before, with no reference at all (the one
\* reference the accessor gave was released once, and the result holds
\* none), whether or not the formatting succeeded, and leaves every earlier
\* object as it was; a call whose accessor failed releases nothing.  No
\* reference count is ever negative.
C10_NameReleasedOnce ==
    [][(call'.op = "declaration_repr") =>
          /\ (call'.name # NULL) =>
                /\ call'.name \notin DOMAIN heap
                /\ heap'[call'.name].ob_refcnt = 0
                /\ call'.val # call'.name
                /\ \A o \in DOMAIN heap : heap'[o] = heap[o]
          /\ (call'.name = NULL) => heap' = heap
          /\ \A o \in DOMAIN heap' : heap'[o].ob_refcnt >= 0]_vars

C10_Witness ==
    /\ call.op = "declaration_repr"
    /\ call.name # NULL
    /\ call.val = NULL
    /\ heap[call.name].ob_refcnt = 0
    /\ heap[call.name].str = "x"
====
